---- MODULE Spec2Model ----
(***************************************************************************)
(* Model of github_privacy.py: authenticate, list the public repositories, *)
(* select some of them (--all, --batch, or the interactive prompt),        *)
(* confirm, and PATCH each selected repository to private.                 *)
(*                                                                         *)
(* Text (a line read from stdin, a command-line argument, a repository     *)
(* name) is a sequence of one-character strings, so that strip(), lower(), *)
(* split() and int() are computed on the characters as Python does.        *)
(***************************************************************************)
EXTENDS Integers, Sequences, FiniteSets, TLC

VARIABLES
    pc,             \* where main() stands: auth, list, select, prompt, confirm, update, done
    args,           \* argparse result: [list, all, batch]
    auth,           \* response received for GET /user (NoResponse before it)
    page,           \* get_public_repos: next page number to request
    page_requests,  \* page numbers of the GET /user/repos requests issued, in order
    pages,          \* responses received for those requests, in order
    repos,          \* get_public_repos: accumulated (and then returned) list
    selected_repos, \* main: the selection handed to confirm_action / process_repos
    missing,        \* main: batch names reported as not found
    selection,      \* interactive_selection: last line read, stripped and lower-cased
    confirm,        \* confirm_action: the line read at the confirmation prompt (raw)
    patches,        \* PATCH requests issued, in order: [name, ok]
    success_count,  \* process_repos: counter
    summary,        \* process_repos: <<success_count, len(repo_names)>> as printed
    exit_code       \* process exit status (-1 while running)

vars == <<pc, args, auth, page, page_requests, pages, repos, selected_repos,
          missing, selection, confirm, patches, success_count, summary, exit_code>>

-----------------------------------------------------------------------------
(* Bounds of the model *)

\* the server answers at most this many non-empty pages
MaxPages == 2
\* a page of the exhaustive listing specification holds at most this many items
MaxPageLen == 2
\* longest repository list the selection specification starts from
MaxRepos == 3
\* longest line typed at the selection prompt, drawn exhaustively
MaxSelLen == 3
\* longest --batch argument, drawn exhaustively
MaxBatchLen == 3

-----------------------------------------------------------------------------
(* Text *)

\* Python's None for a text value: no line read, no argument given
None == <<"None">>

\* the configured account (GitHubPrivacyManager.username)
username == "u"

Range(s) == {s[i] : i \in 1..Len(s)}

\* every text of length at most n over an alphabet
StringsUpTo(alphabet, n) == UNION {[1..k -> alphabet] : k \in 0..n}

\* the ASCII whitespace str.strip() and int() drop
Whitespace == {" ", "\t", "\n", "\r", "\f"}

RECURSIVE LStrip(_)
LStrip(s) ==
    IF s # <<>> /\ Head(s) \in Whitespace THEN LStrip(Tail(s)) ELSE s

RECURSIVE RStrip(_)
RStrip(s) ==
    IF s # <<>> /\ s[Len(s)] \in Whitespace
    THEN RStrip(SubSeq(s, 1, Len(s) - 1))
    ELSE s

\* str.strip()
Strip(s) == RStrip(LStrip(s))

UpperCase == <<"A","B","C","D","E","F","G","H","I","J","K","L","M",
               "N","O","P","Q","R","S","T","U","V","W","X","Y","Z">>
LowerCase == <<"a","b","c","d","e","f","g","h","i","j","k","l","m",
               "n","o","p","q","r","s","t","u","v","w","x","y","z">>

LowerChar(c) ==
    IF \E i \in 1..Len(UpperCase) : UpperCase[i] = c
    THEN LowerCase[CHOOSE i \in 1..Len(UpperCase) : UpperCase[i] = c]
    ELSE c

\* str.lower()
Lower(s) == [i \in 1..Len(s) |-> LowerChar(s[i])]

\* str.split(sep): never empty, "" splits into [""]
RECURSIVE Split(_, _)
Split(s, sep) ==
    IF \E i \in 1..Len(s) : s[i] = sep
    THEN LET k == CHOOSE i \in 1..Len(s) :
                    s[i] = sep /\ \A j \in 1..(i - 1) : s[j] # sep
         IN  <<SubSeq(s, 1, k - 1)>> \o Split(SubSeq(s, k + 1, Len(s)), sep)
    ELSE <<s>>

Digits == <<"0","1","2","3","4","5","6","7","8","9">>

IsDigit(c) == \E i \in 1..Len(Digits) : Digits[i] = c

DigitVal(c) == (CHOOSE i \in 1..Len(Digits) : Digits[i] = c) - 1

RECURSIVE DigitsVal(_)
DigitsVal(ds) ==
    IF ds = <<>> THEN 0
    ELSE 10 * DigitsVal(SubSeq(ds, 1, Len(ds) - 1)) + DigitVal(ds[Len(ds)])

\* the text int() parses after stripping whitespace and an optional sign
IntBody(s) ==
    LET t == Strip(s)
    IN  IF t # <<>> /\ t[1] \in {"+", "-"} THEN Tail(t) ELSE t

\* int(s) does not raise ValueError: digits, single underscores between them
IntOK(s) ==
    LET b == IntBody(s)
    IN  /\ b # <<>>
        /\ IsDigit(b[1])
        /\ IsDigit(b[Len(b)])
        /\ \A i \in 1..Len(b) : IsDigit(b[i]) \/ b[i] = "_"
        /\ \A i \in 1..(Len(b) - 1) : ~(b[i] = "_" /\ b[i + 1] = "_")

\* int(s), where IntOK(s)
IntVal(s) ==
    LET t == Strip(s)
        v == DigitsVal(SelectSeq(IntBody(s), IsDigit))
    IN  IF t[1] = "-" THEN 0 - v ELSE v

\* list(set(xs)): the elements once each, in an order Python does not fix
Orderings(S) ==
    {f \in [1..Cardinality(S) -> S] : \A x \in S : \E i \in 1..Cardinality(S) : f[i] = x}

-----------------------------------------------------------------------------
(* Responses of the remote API *)

NoResponse == [kind |-> "none", status |-> 0, login |-> FALSE]

\* GET /user: an HTTP status and whether the JSON body holds "login" (a 200
\* body with or without it, a 203 relayed by a proxy with it), or a
\* requests.RequestException (kind "error")
AuthResponses ==
    {[kind |-> "http", status |-> 200, login |-> TRUE],
     [kind |-> "http", status |-> 200, login |-> FALSE],
     [kind |-> "http", status |-> 203, login |-> TRUE],
     [kind |-> "http", status |-> 401, login |-> FALSE],
     [kind |-> "http", status |-> 500, login |-> FALSE],
     [kind |-> "error", status |-> 0, login |-> FALSE]}

\* a variant of AuthOK: any status below 400 (response.ok) counts
AuthOKAnySuccess(resp) == resp.kind = "http" /\ resp.status < 400

\* test_authentication: the status test of line 31
AuthOK(resp) == resp.kind = "http" /\ resp.status = 200

Repo(n, o) == [name |-> n, owner |-> o]

\* GET /user/repos: a JSON list of items, or a request error
\* (raise_for_status or a transport failure)
PageError == [ok |-> FALSE, items |-> <<>>]
PageOf(items) == [ok |-> TRUE, items |-> items]

\* pages offered in the whole-program specification
SamplePages ==
    {PageError,
     PageOf(<<>>),
     PageOf(<<Repo(<<"a">>, "u"), Repo(<<"b">>, "o")>>),
     PageOf(<<Repo(<<"b">>, "u"), Repo(<<"a">>, "u")>>),
     PageOf(<<Repo(<<"c">>, "o")>>)}

\* pages offered in the listing specification: every page of bounded length
PageItems == {Repo(<<"a">>, "u"), Repo(<<"b">>, "u"), Repo(<<"c">>, "o")}
AllPages == {PageError} \cup {PageOf(items) : items \in StringsUpTo(PageItems, MaxPageLen)}

\* PATCH /repos/{username}/{name}: an HTTP status or a request error
PatchResponses ==
    {[kind |-> "http", status |-> 200],
     [kind |-> "http", status |-> 404],
     [kind |-> "http", status |-> 500],
     [kind |-> "error", status |-> 0]}

\* make_repo_private: raise_for_status raises for 4xx and 5xx
PatchOK(resp) == resp.kind = "http" /\ resp.status < 400

-----------------------------------------------------------------------------
(* Lines typed and arguments given *)

\* --batch arguments of the whole-program specification
BatchArgs ==
    {None,
     <<>>,
     <<"a">>,
     <<"a", ",", "b">>,
     <<"a", ",", "a">>,
     <<" ", "b", " ", ",", "c">>}

\* --batch arguments of the selection specification: every short text
BatchStrings == {None} \cup StringsUpTo({"a", "b", ",", " "}, MaxBatchLen)

\* lines typed at the selection prompt in the whole-program specification,
\* and retyped after a rejected line in the selection specification
SelectionLines ==
    {<<"q","u","i","t">>,
     <<"a","l","l">>,
     <<" ","A","L","L"," ">>,
     <<"1">>,
     <<"1","-","2",",","4">>,
     <<"2",","," ","1",",","2">>,
     <<"3","-","1">>,
     <<"+","1">>,
     <<"1",",","x">>,
     <<"1","-","2","-","3">>,
     <<>>}

\* first lines typed in the selection specification: every short text
SelectionStrings ==
    SelectionLines \cup StringsUpTo({"0", "1", "2", "-", ",", " ", "x"}, MaxSelLen)

\* lines typed at the confirmation prompt
ConfirmLines ==
    {<<"y","e","s">>,
     <<" ","Y"," ">>,
     <<"n","o">>,
     <<"y","e","s","s">>,
     <<>>}

-----------------------------------------------------------------------------
(* get_public_repos *)

\* line 70: keep the items whose owner login is the configured account
IsOwned(repo) == repo.owner = username
\* a variant of OwnedRepos: the owner filter left out
OwnedReposUnfiltered(page_repos) == page_repos

OwnedRepos(page_repos) == SelectSeq(page_repos, IsOwned)

\* [repo['name'] for repo in repos]
Names(rs) == [i \in 1..Len(rs) |-> rs[i].name]

-----------------------------------------------------------------------------
(* interactive_selection: the number parser of lines 135-152 *)

\* lines 144, 149: 1 <= i <= len(repos)
InRange(i, n) == 1 <= i /\ i <= n

\* a variant of RangePositions: range(start, end)
RangePositionsExclusive(start, end) == start..(end - 1)

\* line 143: range(start, end + 1)
RangePositions(start, end) == start..end

\* lines 145, 150: repos[i-1]['name'], i counted from 1
RepoAt(rs, i) == rs[i].name

\* the names one comma-separated part appends, or the ValueError it raises
ParsePart(part, rs) ==
    LET p == Strip(part)
        Picked(positions) ==
            [ok |-> TRUE,
             names |-> {RepoAt(rs, i) : i \in {j \in positions : InRange(j, Len(rs))}}]
        Failed == [ok |-> FALSE, names |-> {}]
    IN  IF "-" \in Range(p)
        THEN LET pieces == Split(p, "-")
             IN  IF Len(pieces) = 2 /\ IntOK(pieces[1]) /\ IntOK(pieces[2])
                 THEN Picked(RangePositions(IntVal(pieces[1]), IntVal(pieces[2])))
                 ELSE Failed
        ELSE IF IntOK(p) THEN Picked({IntVal(p)}) ELSE Failed

\* a variant of Collect: a part that raises is skipped, the others are kept
CollectLenient(results) ==
    [ok |-> TRUE,
     names |-> UNION {results[i].names : i \in {j \in 1..Len(results) : results[j].ok}}]

\* the try block as a whole: a ValueError in any part abandons the list built
\* so far (selected_repos is local to the iteration); otherwise set(selected_repos)
Collect(results) ==
    IF \A i \in 1..Len(results) : results[i].ok
    THEN [ok |-> TRUE, names |-> UNION {results[i].names : i \in 1..Len(results)}]
    ELSE [ok |-> FALSE, names |-> {}]

ParseSelection(sel, rs) ==
    LET parts == Split(sel, ",")
    IN  Collect([i \in 1..Len(parts) |-> ParsePart(parts[i], rs)])

-----------------------------------------------------------------------------
(* main: the selection of lines 278-291 *)

\* a variant of ListOnly: --all overrides --list
ListOnlyUnlessAll == args.list /\ ~args.all

\* line 274
ListOnly == args.list

\* line 282: `elif args.batch:` is false for None and for the empty string
BatchGiven == args.batch # None /\ args.batch # <<>>

\* line 283
BatchNames(batch) ==
    LET parts == Split(batch, ",")
    IN  [i \in 1..Len(parts) |-> Strip(parts[i])]

\* a variant of BatchSelect: the names are taken as given
BatchSelectUnchecked(repo_names, available_names) == repo_names

\* line 285
BatchSelect(repo_names, available_names) ==
    LET Available(name) == name \in available_names
    IN  SelectSeq(repo_names, Available)

\* a variant of MissingNames: the operands of the difference swapped
MissingNamesSwapped(repo_names, selected) == Range(selected) \ Range(repo_names)

\* line 287
MissingNames(repo_names, selected) == Range(repo_names) \ Range(selected)

\* line 293: an empty selection skips the confirmation ("Operation cancelled.")
Selected(sel) ==
    /\ selected_repos' = sel
    /\ pc' = IF sel # <<>> THEN "confirm" ELSE "done"
    /\ exit_code' = IF sel # <<>> THEN exit_code ELSE 0

\* a variant of Confirmed: anything but no / n confirms
ConfirmedUnlessNo(answer) == answer \notin {<<"n","o">>, <<"n">>}

\* line 167
Confirmed(answer) == answer \in {<<"y","e","s">>, <<"y">>}

\* a variant of CountSuccess: every attempt is counted
CountEveryAttempt(count, ok) == count + 1

\* lines 180-182
CountSuccess(count, ok) == IF ok THEN count + 1 ELSE count

-----------------------------------------------------------------------------
(* The steps of main *)

\* lines 268-269 with test_authentication: a 200 without "login" raises KeyError,
\* which main's `except Exception` turns into exit 1
test_authentication(resp) ==
    /\ pc = "auth"
    /\ auth' = resp
    /\ IF AuthOK(resp) /\ resp.login
       THEN pc' = "list" /\ UNCHANGED exit_code
       ELSE pc' = "done" /\ exit_code' = 1
    /\ UNCHANGED <<args, page, page_requests, pages, repos, selected_repos,
                   missing, selection, confirm, patches, success_count, summary>>

\* one iteration of the loop of get_public_repos (lines 50-77)
get_public_repos(resp) ==
    /\ pc = "list"
    /\ (resp.ok /\ resp.items # <<>>) => page <= MaxPages
    /\ page_requests' = Append(page_requests, page)
    /\ pages' = Append(pages, resp)
    /\ IF resp.ok /\ resp.items # <<>>
       THEN /\ repos' = repos \o OwnedRepos(resp.items)
            /\ page' = page + 1
            /\ UNCHANGED pc
       ELSE /\ pc' = "select"
            /\ UNCHANGED <<repos, page>>
    /\ UNCHANGED <<args, auth, selected_repos, missing, selection, confirm,
                   patches, success_count, summary, exit_code>>

\* lines 272-291 (and 293 for a selection made without the prompt)
main_selection ==
    /\ pc = "select"
    /\ IF ListOnly
       THEN /\ pc' = "done"
            /\ exit_code' = 0
            /\ UNCHANGED <<selected_repos, missing>>
       ELSE IF args.all
       THEN /\ Selected(Names(repos))
            /\ UNCHANGED missing
       ELSE IF BatchGiven
       THEN LET repo_names == BatchNames(args.batch)
                available_names == Range(Names(repos))
                sel == BatchSelect(repo_names, available_names)
            IN  /\ Selected(sel)
                /\ missing' = MissingNames(repo_names, sel)
       ELSE IF repos = <<>>
       THEN /\ Selected(<<>>)
            /\ UNCHANGED missing
       ELSE /\ pc' = "prompt"
            /\ UNCHANGED <<selected_repos, missing, exit_code>>
    /\ UNCHANGED <<args, auth, page, page_requests, pages, repos, selection,
                   confirm, patches, success_count, summary>>

\* one iteration of the loop of interactive_selection (lines 124-155)
interactive_selection(line) ==
    /\ pc = "prompt"
    /\ LET sel == Lower(Strip(line))
           parsed == ParseSelection(sel, repos)
       IN  /\ selection' = sel
           /\ IF sel = <<"q","u","i","t">>
              THEN Selected(<<>>)
              ELSE IF sel = <<"a","l","l">>
              THEN Selected(Names(repos))
              ELSE IF parsed.ok
              THEN \E order \in Orderings(parsed.names) : Selected(order)
              ELSE UNCHANGED <<pc, selected_repos, exit_code>>
    /\ UNCHANGED <<args, auth, page, page_requests, pages, repos, missing,
                   confirm, patches, success_count, summary>>

\* confirm_action (lines 157-167) and the branch of line 293
confirm_action(line) ==
    /\ pc = "confirm"
    /\ confirm' = line
    /\ IF Confirmed(Lower(Strip(line)))
       THEN pc' = "update" /\ UNCHANGED exit_code
       ELSE pc' = "done" /\ exit_code' = 0
    /\ UNCHANGED <<args, auth, page, page_requests, pages, repos, selected_repos,
                   missing, selection, patches, success_count, summary>>

\* one iteration of the loop of process_repos (lines 178-184), and line 186
\* after the last one
process_repos(resp) ==
    /\ pc = "update"
    /\ LET i == Len(patches) + 1
           ok == PatchOK(resp)
       IN  /\ patches' = Append(patches, [name |-> selected_repos[i], ok |-> ok])
           /\ success_count' = CountSuccess(success_count, ok)
           /\ IF i = Len(selected_repos)
              THEN /\ pc' = "done"
                   /\ summary' = <<success_count', Len(selected_repos)>>
                   /\ exit_code' = 0
              ELSE UNCHANGED <<pc, summary, exit_code>>
    /\ UNCHANGED <<args, auth, page, page_requests, pages, repos, selected_repos,
                   missing, selection, confirm>>

-----------------------------------------------------------------------------
(* The whole program: main() from the construction of the manager on *)

Init ==
    /\ pc = "auth"
    /\ args \in [list : BOOLEAN, all : BOOLEAN, batch : BatchArgs]
    /\ auth = NoResponse
    /\ page = 1
    /\ page_requests = <<>>
    /\ pages = <<>>
    /\ repos = <<>>
    /\ selected_repos = <<>>
    /\ missing = {}
    /\ selection = None
    /\ confirm = None
    /\ patches = <<>>
    /\ success_count = 0
    /\ summary = <<>>
    /\ exit_code = -1

Next ==
    \/ \E resp \in AuthResponses : test_authentication(resp)
    \/ \E resp \in SamplePages : get_public_repos(resp)
    \/ main_selection
    \/ \E line \in SelectionLines : interactive_selection(line)
    \/ \E line \in ConfirmLines : confirm_action(line)
    \/ \E resp \in PatchResponses : process_repos(resp)

Spec == Init /\ [][Next]_vars

-----------------------------------------------------------------------------
(* get_public_repos alone, against every bounded page *)

Authenticated == [kind |-> "http", status |-> 200, login |-> TRUE]

InitList ==
    /\ pc = "list"
    /\ args \in [list : {TRUE}, all : BOOLEAN, batch : {None}]
    /\ auth = Authenticated
    /\ page = 1
    /\ page_requests = <<>>
    /\ pages = <<>>
    /\ repos = <<>>
    /\ selected_repos = <<>>
    /\ missing = {}
    /\ selection = None
    /\ confirm = None
    /\ patches = <<>>
    /\ success_count = 0
    /\ summary = <<>>
    /\ exit_code = -1

NextList ==
    \/ \E resp \in AllPages : get_public_repos(resp)
    \/ main_selection

SpecList == InitList /\ [][NextList]_vars

-----------------------------------------------------------------------------
(* The selection alone, against every bounded list, --batch argument and line *)

RepoLists ==
    StringsUpTo({Repo(<<"a">>, username), Repo(<<"b">>, username)}, MaxRepos)

\* the first line is any short text; a line retyped after a rejection is one
\* of SelectionLines
PromptInputs == IF selection = None THEN SelectionStrings ELSE SelectionLines

InitSelection ==
    /\ pc = "select"
    /\ args \in [list : BOOLEAN, all : BOOLEAN, batch : BatchStrings]
    /\ auth = Authenticated
    /\ repos \in RepoLists
    /\ pages = IF repos = <<>> THEN <<PageOf(<<>>)>> ELSE <<PageOf(repos), PageOf(<<>>)>>
    /\ page_requests = [i \in 1..Len(pages) |-> i]
    /\ page = Len(pages)
    /\ selected_repos = <<>>
    /\ missing = {}
    /\ selection = None
    /\ confirm = None
    /\ patches = <<>>
    /\ success_count = 0
    /\ summary = <<>>
    /\ exit_code = -1

NextSelection ==
    \/ main_selection
    \/ \E line \in PromptInputs : interactive_selection(line)

SpecSelection == InitSelection /\ [][NextSelection]_vars

-----------------------------------------------------------------------------
(* Properties *)

NoDuplicates(s) == \A i, j \in 1..Len(s) : s[i] = s[j] => i = j

PatchedNames == [i \in 1..Len(patches) |-> patches[i].name]

Affirmative(line) == Lower(Strip(line)) \in {<<"y","e","s">>, <<"y">>}

\* C1: a PATCH is issued only after the confirmation prompt was answered yes
\* or y (trimmed, lower-cased); any other answer ends the run with no PATCH.
C1_PatchOnlyAfterYes ==
    /\ (patches # <<>> \/ pc = "update") => (confirm # None /\ Affirmative(confirm))
    /\ (confirm # None /\ ~Affirmative(confirm)) => (pc = "done" /\ patches = <<>>)

C1_Witness ==
    /\ pc = "done"
    /\ selected_repos # <<>>
    /\ confirm = <<"y","e","s","s">>
    /\ patches = <<>>

\* C2: with --list the run never selects, never confirms and never issues a
\* PATCH, whatever --all and --batch are.
C2_ListOnlyNoMutation ==
    args.list =>
        /\ pc \in {"auth", "list", "select", "done"}
        /\ selected_repos = <<>>
        /\ selection = None
        /\ confirm = None
        /\ patches = <<>>

C2_Witness ==
    /\ args.list /\ args.all /\ args.batch = <<"a">>
    /\ pc = "done"
    /\ exit_code = 0
    /\ repos # <<>>

\* C3: every selected name, and every name a PATCH is issued for, is the name
\* of a repository in the list get_public_repos returned.
C3_SelectionWithinFetched ==
    /\ Range(selected_repos) \subseteq Range(Names(repos))
    /\ Range(PatchedNames) \subseteq Range(Names(repos))

C3_Witness ==
    /\ ~args.all /\ args.batch = <<" ", "b", " ", ",", "c">>
    /\ missing = {<<"c">>}
    /\ PatchedNames = <<<<"b">>>>

\* C4: when GET /user fails (a status other than 200, or a request error) the
\* run ends with exit status 1 and no GET /user/repos and no PATCH is issued.
C4_FailedAuthAborts ==
    (auth.kind = "error" \/ (auth.kind = "http" /\ auth.status # 200)) =>
        /\ pc = "done"
        /\ exit_code = 1
        /\ page_requests = <<>>
        /\ patches = <<>>

C4_Witness ==
    /\ auth.kind = "http" /\ auth.status = 401
    /\ pc = "done"
    /\ exit_code = 1

\* C5: the selection handed to the updater holds no name twice, and no
\* repository receives more than one PATCH in a run.
C5_NoDuplicateSelection ==
    /\ NoDuplicates(PatchedNames)
    /\ (pc = "done" /\ patches # <<>>) => NoDuplicates(selected_repos)

IsNumber(t) == t # <<>> /\ \A i \in 1..Len(t) : IsDigit(t[i])

Before(t, k) == SubSeq(t, 1, k - 1)
After(t, k) == SubSeq(t, k + 1, Len(t))

ValidToken(t) ==
    \/ IsNumber(t)
    \/ \E k \in 1..Len(t) : t[k] = "-" /\ IsNumber(Before(t, k)) /\ IsNumber(After(t, k))

TokenRefers(t, p) ==
    \/ IsNumber(t) /\ p = DigitsVal(t)
    \/ \E k \in 1..Len(t) :
          /\ t[k] = "-" /\ IsNumber(Before(t, k)) /\ IsNumber(After(t, k))
          /\ DigitsVal(Before(t, k)) <= p /\ p <= DigitsVal(After(t, k))

Tokens(sel) == {Strip(t) : t \in Range(Split(sel, ","))}

ValidSelection(sel) == \A t \in Tokens(sel) : ValidToken(t)

\* C6: a line made of comma-joined tokens N and N-M (decimal digits) is
\* accepted, and the selection is exactly the names at the referenced positions
\* within 1..len(repos), each once; positions outside are dropped.
C6_ValidSelectionExact ==
    (selection # None /\ ValidSelection(selection)) =>
        /\ pc # "prompt"
        /\ NoDuplicates(selected_repos)
        /\ Range(selected_repos) =
              {repos[p].name : p \in {q \in 1..Len(repos) :
                                        \E t \in Tokens(selection) : TokenRefers(t, q)}}

C6_Witness ==
    /\ selection = <<"1","-","2",",","4">>
    /\ Len(repos) = 3
    /\ repos[1].name # repos[2].name
    /\ Range(selected_repos) = {repos[1].name, repos[2].name}
    /\ Len(selected_repos) = 2
    /\ pc = "confirm"

WellFormedToken(t) ==
    \/ IntOK(t)
    \/ \E k \in 1..Len(t) : t[k] = "-" /\ IntOK(Before(t, k)) /\ IntOK(After(t, k))

HasMalformedToken(sel) == \E t \in Tokens(sel) : ~WellFormedToken(t)

Keyword(sel) == sel \in {<<"q","u","i","t">>, <<"a","l","l">>}

LineRefers(sel, p) ==
    \E t \in Tokens(sel) :
        \/ IntOK(t) /\ IntVal(t) = p
        \/ \E k \in 1..Len(t) :
              /\ t[k] = "-" /\ IntOK(Before(t, k)) /\ IntOK(After(t, k))
              /\ IntVal(Before(t, k)) <= p /\ p <= IntVal(After(t, k))

\* C7: a line with a malformed token (neither an integer as int() reads it nor
\* two of them joined by a dash) is rejected whole: the prompt is shown again
\* and nothing is selected; the loop is left only on quit, all or a line
\* without a malformed token, and what is returned holds only names the last
\* line refers to.
C7_MalformedRejectedWhole ==
    selection # None =>
        /\ (HasMalformedToken(selection) /\ ~Keyword(selection)) =>
              (pc = "prompt" /\ selected_repos = <<>> /\ exit_code = -1)
        /\ pc # "prompt" => (Keyword(selection) \/ ~HasMalformedToken(selection))
        /\ (pc # "prompt" /\ ~Keyword(selection)) =>
              \A i \in 1..Len(selected_repos) :
                  \E p \in 1..Len(repos) :
                      repos[p].name = selected_repos[i] /\ LineRefers(selection, p)

C7_Witness ==
    /\ selection = <<"1",",","x">>
    /\ pc = "prompt"
    /\ selected_repos = <<>>
    /\ repos # <<>>

BatchMode == ~args.list /\ ~args.all /\ BatchGiven

\* C8: in batch mode the selected names are the given names that are fetched,
\* the names reported missing are the given names that are not, and the run
\* goes on to the confirmation whenever something was selected.
C8_BatchSelection ==
    (pc # "select" /\ BatchMode) =>
        LET given == Range(BatchNames(args.batch))
            fetched == {repos[i].name : i \in 1..Len(repos)}
        IN  /\ Range(selected_repos) = given \cap fetched
            /\ missing = given \ fetched
            /\ exit_code # 1
            /\ pc = IF selected_repos # <<>> THEN "confirm" ELSE "done"

C8_Witness ==
    /\ BatchMode /\ args.batch = <<"a", ",", "b">>
    /\ Names(repos) = <<<<"a">>>>
    /\ selected_repos = <<<<"a">>>>
    /\ missing = {<<"b">>}
    /\ pc = "confirm"

OfAccount(repo) == repo.owner = "u"

RECURSIVE AccountItems(_)
AccountItems(ps) ==
    IF ps = <<>> THEN <<>>
    ELSE AccountItems(SubSeq(ps, 1, Len(ps) - 1))
            \o (IF ps[Len(ps)].ok THEN SelectSeq(ps[Len(ps)].items, OfAccount) ELSE <<>>)

Continues(p) == p.ok /\ p.items # <<>>

\* C9: pages are requested 1, 2, 3, ... in order; no request follows an empty
\* page or a request error; the list returned is the concatenation, in order,
\* of the account's items of the non-empty pages received.
C9_Pagination ==
    /\ page_requests = [i \in 1..Len(pages) |-> i]
    /\ \A i \in 1..(Len(pages) - 1) : Continues(pages[i])
    /\ pc = "list" => (pages = <<>> \/ Continues(pages[Len(pages)]))
    /\ pc # "list" => (pages # <<>> /\ ~Continues(pages[Len(pages)]))
    /\ repos = AccountItems(pages)

C9_Witness ==
    /\ pc = "select"
    /\ Len(pages) = 3
    /\ pages[1] = PageOf(<<Repo(<<"c">>, "o")>>)
    /\ pages[2] = PageOf(<<Repo(<<"b">>, "u"), Repo(<<"c">>, "o")>>)
    /\ pages[3] = PageError
    /\ repos = <<Repo(<<"b">>, "u")>>

Successes == Cardinality({i \in 1..Len(patches) : patches[i].ok})

\* C10: the update loop attempts every selected name once, in order, whatever
\* the earlier attempts returned; success_count counts the attempts that
\* succeeded and the summary reports it over the size of the selection.
C10_EveryNameAttempted ==
    /\ Len(patches) <= Len(selected_repos)
    /\ \A i \in 1..Len(patches) : patches[i].name = selected_repos[i]
    /\ success_count = Successes
    /\ pc = "update" => Len(patches) < Len(selected_repos)
    /\ (pc = "done" /\ confirm # None /\ Affirmative(confirm)) =>
          /\ Len(patches) = Len(selected_repos)
          /\ summary = <<Successes, Len(selected_repos)>>

C10_Witness ==
    /\ pc = "done"
    /\ Len(patches) = 3
    /\ ~patches[1].ok /\ patches[2].ok /\ ~patches[3].ok
    /\ summary = <<1, 3>>

====
